---- MODULE Spec2Model ----
(***************************************************************************)
(* The run-state store of the lane runner (src/store.ts): one zustand      *)
(* store whose fields are written only by its own actions.  The store is   *)
(* the record `store`; `set(partial)` of the source is a record update.    *)
(*                                                                         *)
(* The LevelManager component (src/unnamed/part_000) owns the world        *)
(* objects.  It reads the store through useStore(), so it is rendered      *)
(* again after every task that changed the store, and its useEffect runs   *)
(* when status or level changed: every action below ends with that render  *)
(* (Commit).  Its frame callback is the action step.                       *)
(*                                                                         *)
(* Time is Date.now() in milliseconds.  RUN_SPEED_BASE, COMBO_WINDOW_MS    *)
(* and MAX_MULTIPLIER are imported from ./types (src/store.ts line 8):     *)
(* the model fixes small values for them, and the properties below depend  *)
(* on the values only in that the combo window is longer than one short    *)
(* pause.  speed is kept in units in which RUN_SPEED_BASE is 10, so that   *)
(* the 10% and 40% increments of the source are the integers 1 and 4.      *)
(***************************************************************************)
EXTENDS Integers, Sequences, FiniteSets, TLC

VARIABLES
    store,       \* the zustand state: every data field of GameState
    now,         \* Date.now()
    timers,      \* due times of the pending setTimeout callbacks of activateImmortality
    op,          \* the operation that produced this state, its arguments and return value
    lastPickup,  \* time of the previous collectGem/collectLetter call of the chain, -1 if none
    activatedAt, \* time of the successful activateImmortality of the current run, -1 if none
    staleTimers, \* how many of the pending callbacks were scheduled before the current run
    objectsRef,  \* objectsRef.current: the world objects, in array order
    distanceTraveled,    \* distanceTraveled.current
    nextLetterDistance,  \* nextLetterDistance.current
    prevStatus,  \* prevStatus.current
    prevLevel,   \* prevLevel.current
    events,      \* what the last task dispatched: window events, audio cues, openShop,
                 \* setRenderTrigger; each with the type of the object it came from
    lastSpawn,   \* the spawn decision of the last task: furthestZ, minGap, spawnZ, objects added
    lastFrame,   \* what the last frame read and launched: the player position, the new
                 \* beams, furthestZ, the objects spawned
    staleWorld   \* the world holds what a run that has ended (GAME_OVER, VICTORY) left

vars == <<store, now, timers, op, lastPickup, activatedAt, staleTimers,
          objectsRef, distanceTraveled, nextLetterDistance, prevStatus, prevLevel, events,
          lastSpawn, lastFrame, staleWorld>>

----------------------------------------------------------------------------
(* Program constants *)

GEMINI_TARGET == <<"G", "E", "M", "I", "N", "I">>
WORD_LENGTH == Len(GEMINI_TARGET)
MAX_LEVEL == 3
RUN_SPEED_BASE == 10
COMBO_WINDOW_MS == 100
MAX_MULTIPLIER == 3
LETTER_SCORE == 500
VICTORY_BONUS == 5000
MAX_LANES == 9
IMMORTALITY_MS == 5000

GameStatus == {"MENU", "PLAYING", "SHOP", "GAME_OVER", "VICTORY"}
ItemTypes == {"DOUBLE_JUMP", "MAX_LIFE", "HEAL", "IMMORTAL"}

(* The world of the LevelManager.  Positions and distances are integers in
   units of 1/40 of a world unit (UNIT), durations are in ms.  One unit of
   store.speed (a tenth of RUN_SPEED_BASE) is 2 world units per second. *)
UNIT == 40
SPAWN_DISTANCE == 120 * UNIT
REMOVE_DISTANCE == 20 * UNIT
LANE_WIDTH == 88
BASE_LETTER_INTERVAL == 150 * UNIT
PORTAL_Z == -100 * UNIT
SOFT_RESET_Z == -80 * UNIT
MAX_DELTA == 50
MISSILE_SPEED == 30
OBSTACLE_HEIGHT == 64
PLAYER_HEIGHT == 72
BOSS_Y == 6 * UNIT
BOSS_Z == -45 * UNIT
BOSS_ATTACK_MS == 3500
BEAM_Y == UNIT
BEAM_Z == -20 * UNIT
BEAM_WARNING_MS == 2000
BEAM_ACTIVE_MS == 3000
ALIEN_FIRE_Z == -90 * UNIT
ALIEN_Y == 60
MISSILE_Y == UNIT
MISSILE_AHEAD == 2 * UNIT
LETTER_Y == UNIT
GEM_Y == 48
HIT_DX == 36
Z_THRESHOLD == 2 * UNIT
PORTAL_DZ == 2 * UNIT
PICKUP_DY == 100
EMPTY_TRACK_Z == -20 * UNIT
MIN_GAP == 12 * UNIT
GEM_POINTS == 50
BONUS_GEM_POINTS == 100

----------------------------------------------------------------------------
(* Bounds of the model and the inputs the environment draws from *)

TimeStep == 50          \* a short pause between two calls, shorter than the combo window
TimerStep == 2500       \* a long pause, half the immortality duration
MaxTime == 150          \* horizon of the runs with short pauses
MaxTimerTime == 5000    \* horizon of the runs with long pauses
MaxScore == 2000         \* cap of addScore
MaxRunScore == 14000     \* cap of the score a pickup may reach
MaxSpeedScore == 24000   \* the same in the runs at every speed: three words of letters
MaxLevelCap == 4
MaxLivesCap == 4
MaxGems == 2
MaxTimers == 1
MaxRunTimers == 2       \* pending expiry callbacks in the runs about immortality
MaxDistance == 120      \* cap of distanceTraveled in the runs of the world: 3 world units
MaxRow == 1             \* aliens or obstacles of one row
MaxRunDistance == 2000  \* cap of distanceTraveled in the long runs: 50 world units
MaxBossDistance == 10000    \* cap of distanceTraveled in the runs against the boss
MaxTrackDistance == 12200   \* cap of distanceTraveled in the runs along the track
MaxSpeedDistance == 6000    \* cap of distanceTraveled in the runs at every speed
MaxPortalDistance == 9400   \* cap of distanceTraveled in the runs to the shop
MaxBeamDistance == 10400    \* cap of distanceTraveled in the runs with short frames

GemValues == {50, 100}      \* points of the gems src/unnamed/part_000 spawns
ScoreAmounts == {1000}
ItemCosts == {1000}
Distances == {0, 150}

----------------------------------------------------------------------------
(* Helpers *)

Min(a, b) == IF a < b THEN a ELSE b

IncludesLast(s, x) == Len(s) > 0 /\ s[Len(s)] = x

Includes(s, x) == \E i \in 1..Len(s) : s[i] = x

Op(name, kind, n, ret) == [name |-> name, kind |-> kind, n |-> n, ret |-> ret]

(* The combo rule of collectGem and collectLetter *)
isComboActiveAtExpiry(t, endTime) == t <= endTime

isComboActive(t, endTime) == t < endTime

newMultiplier(m, t, endTime) ==
    IF isComboActive(t, endTime) THEN Min(m + 1, MAX_MULTIPLIER) ELSE 1

newEndTime(t) == t + COMBO_WINDOW_MS

----------------------------------------------------------------------------
(* Initial state: the store as created, no timer pending *)

InitialState ==
    [status |-> "MENU", score |-> 0, lives |-> 3, maxLives |-> 3, speed |-> 0,
     collectedLetters |-> <<>>, level |-> 1, laneCount |-> 3,
     gemsCollected |-> 0, distance |-> 0,
     multiplier |-> 1, multiplierEndTime |-> 0,
     hasDoubleJump |-> FALSE, hasImmortality |-> FALSE,
     isImmortalityActive |-> FALSE]

(* getLetterInterval: BASE_LETTER_INTERVAL * 1.5^max(0, level - 1) *)
getLetterInterval(level) ==
    LET k == IF level > 1 THEN level - 1 ELSE 0
    IN  (BASE_LETTER_INTERVAL * 3^k) \div 2^k

(* A GameObject: position [x, y, z], the active flag and the optional fields *)
Object(type, x, y, z) ==
    [type |-> type, x |-> x, y |-> y, z |-> z, active |-> TRUE,
     attackTimer |-> 0, beamTimer |-> 0, beamState |-> "", beamLane |-> 0,
     hasFired |-> FALSE, points |-> 0, targetIndex |-> -1, batch |-> 0,
     hits |-> 0, tested |-> FALSE]

(* Track objects carry the number of the batch that placed them (the objects
   of one spawn decision, or one portal); others carry 0 *)
nextBatch(objs) ==
    IF objs = <<>> THEN 1
    ELSE 1 + (CHOOSE b \in {objs[i].batch : i \in 1..Len(objs)} :
                 \A i \in 1..Len(objs) : objs[i].batch <= b)

NoSpawn == [count |-> 0, furthestZ |-> 0, minGap |-> 0, spawnZ |-> 0]

Origin == [x |-> 0, y |-> 0, z |-> 0]

NoFrame ==
    [player |-> Origin, beams |-> <<>>, frontier |-> 0 - SPAWN_DISTANCE, spawned |-> <<>>,
     skipped |-> <<>>]

Event(name, by) == [name |-> name, by |-> by]

Init ==
    /\ store = InitialState
    /\ now = 0
    /\ timers = <<>>
    /\ op = Op("create", "", 0, "void")
    /\ lastPickup = -1
    /\ activatedAt = -1
    /\ staleTimers = 0
    /\ objectsRef = <<>>
    /\ distanceTraveled = 0
    /\ nextLetterDistance = getLetterInterval(1)
    /\ prevStatus = "MENU"
    /\ prevLevel = 1
    /\ events = <<>>
    /\ lastSpawn = NoSpawn
    /\ lastFrame = NoFrame
    /\ staleWorld = FALSE

----------------------------------------------------------------------------
(* The render that follows a task: the component sees the new store, and its
   useEffect (dependencies status and level) handles resets and transitions *)

isRestart(s) == s.status = "PLAYING" /\ prevStatus = "GAME_OVER"

isMenuReset(s) == s.status = "MENU"

isLevelUp(s) == s.level # prevLevel /\ s.status = "PLAYING"

isVictoryReset(s) == s.status = "PLAYING" /\ prevStatus = "VICTORY"

effectRuns(s) == s.status # prevStatus \/ s.level # prevLevel

isAnyObject(obj) == TRUE

isNearObject(obj) == obj.z > SOFT_RESET_Z

ShopPortal(objs) ==
    [Object("SHOP_PORTAL", 0, 0, PORTAL_Z) EXCEPT !.batch = nextBatch(objs)]

keepNear(objs) == SelectSeq(objs, isNearObject)

(* The world as a hard reset leaves it *)
isFresh(objs, dist, nextLetter) ==
    objs = <<>> /\ dist = 0 /\ nextLetter = getLetterInterval(1)

(* s, objs, dist, nextLetter: the store and the refs as the task left them *)
render(s, objs, dist, nextLetter) ==
    /\ prevStatus' = s.status
    /\ prevLevel' = s.level
    /\ IF effectRuns(s) /\ (isMenuReset(s) \/ isRestart(s) \/ isVictoryReset(s))
       THEN /\ store' = s
            /\ objectsRef' = <<>>
            /\ distanceTraveled' = 0
            /\ nextLetterDistance' = getLetterInterval(1)
            /\ staleWorld' = FALSE
       ELSE IF effectRuns(s) /\ isLevelUp(s) /\ s.level > 1
       THEN /\ store' = s
            /\ objectsRef' = Append(keepNear(objs), ShopPortal(keepNear(objs)))
            /\ distanceTraveled' = dist
            /\ nextLetterDistance' = dist - SPAWN_DISTANCE + getLetterInterval(s.level)
            /\ staleWorld' = staleWorld
       ELSE IF effectRuns(s) /\ s.status \in {"GAME_OVER", "VICTORY"}
       THEN /\ store' = [s EXCEPT !.distance = dist \div UNIT]
            /\ objectsRef' = objs
            /\ distanceTraveled' = dist
            /\ nextLetterDistance' = nextLetter
            /\ staleWorld' = ~isFresh(objs, dist, nextLetter)
       ELSE /\ store' = s
            /\ objectsRef' = objs
            /\ distanceTraveled' = dist
            /\ nextLetterDistance' = nextLetter
            /\ staleWorld' = IF s.status \in {"GAME_OVER", "VICTORY"}
                              THEN ~isFresh(objs, dist, nextLetter)
                              ELSE staleWorld

(* A task of the store alone: the store becomes s, nothing is dispatched *)
Commit(s) ==
    /\ render(s, objectsRef, distanceTraveled, nextLetterDistance)
    /\ events' = <<>>
    /\ lastSpawn' = NoSpawn
    /\ lastFrame' = NoFrame

----------------------------------------------------------------------------
(* Actions of the store *)

startGameState ==
    [status |-> "PLAYING", score |-> 0, lives |-> 3, maxLives |-> 3,
     speed |-> RUN_SPEED_BASE, collectedLetters |-> <<>>, level |-> 1,
     laneCount |-> 3, gemsCollected |-> 0, distance |-> 0,
     multiplier |-> 1, multiplierEndTime |-> 0,
     hasDoubleJump |-> FALSE, hasImmortality |-> FALSE,
     isImmortalityActive |-> FALSE]

restartKeepsInventory ==
    [startGameState EXCEPT !.hasImmortality = store.hasImmortality,
                           !.hasDoubleJump = store.hasDoubleJump]

restartGameState ==
    [status |-> "PLAYING", score |-> 0, lives |-> 3, maxLives |-> 3,
     speed |-> RUN_SPEED_BASE, collectedLetters |-> <<>>, level |-> 1,
     laneCount |-> 3, gemsCollected |-> 0, distance |-> 0,
     multiplier |-> 1, multiplierEndTime |-> 0,
     hasDoubleJump |-> FALSE, hasImmortality |-> FALSE,
     isImmortalityActive |-> FALSE]

startGame ==
    /\ Commit(startGameState)
    /\ op' = Op("startGame", "", 0, "void")
    /\ lastPickup' = -1
    /\ activatedAt' = -1
    /\ staleTimers' = Len(timers)
    /\ UNCHANGED <<now, timers>>

restartGame ==
    /\ Commit(restartGameState)
    /\ op' = Op("restartGame", "", 0, "void")
    /\ lastPickup' = -1
    /\ activatedAt' = -1
    /\ staleTimers' = Len(timers)
    /\ UNCHANGED <<now, timers>>

(* takeDamage: the early return, then the two set() calls *)
damageNeverBlocked == FALSE

damageBlocked == store.isImmortalityActive

damagedStoreLateGameOver ==
    LET s1 == [store EXCEPT !.multiplier = 1, !.multiplierEndTime = 0]
    IN  IF store.lives > 0
        THEN [s1 EXCEPT !.lives = store.lives - 1]
        ELSE [s1 EXCEPT !.lives = 0, !.status = "GAME_OVER", !.speed = 0]

damagedOn(s) ==
    LET s1 == [s EXCEPT !.multiplier = 1, !.multiplierEndTime = 0]
    IN  IF s.lives > 1
        THEN [s1 EXCEPT !.lives = s.lives - 1]
        ELSE [s1 EXCEPT !.lives = 0, !.status = "GAME_OVER", !.speed = 0]

damagedStore == damagedOn(store)

(* takeDamage as a function of the state it finds *)
takeDamageOn(s) == IF s.isImmortalityActive THEN s ELSE damagedOn(s)

takeDamage ==
    /\ IF damageBlocked
       THEN Commit(store) /\ UNCHANGED lastPickup
       ELSE /\ Commit(damagedStore)
            /\ lastPickup' = -1
    /\ op' = Op("takeDamage", "", 0, "void")
    /\ UNCHANGED <<now, timers, activatedAt, staleTimers>>

addScore(amount) ==
    /\ store.score + amount <= MaxScore
    /\ Commit([store EXCEPT !.score = store.score + amount])
    /\ op' = Op("addScore", "", amount, "void")
    /\ UNCHANGED <<now, timers, lastPickup, activatedAt, staleTimers>>

tickComboIgnoresStatus(s, t) ==
    IF s.multiplier > 1 /\ t > s.multiplierEndTime
    THEN [s EXCEPT !.multiplier = 1]
    ELSE s

tickComboOn(s, t) ==
    IF s.status = "PLAYING" /\ s.multiplier > 1 /\ t > s.multiplierEndTime
    THEN [s EXCEPT !.multiplier = 1]
    ELSE s

tickCombo ==
    /\ Commit(tickComboOn(store, now))
    /\ op' = Op("tickCombo", "", 0, "void")
    /\ UNCHANGED <<now, timers, lastPickup, activatedAt, staleTimers>>

collectGemOn(s, value, t) ==
    LET m == newMultiplier(s.multiplier, t, s.multiplierEndTime)
    IN  [s EXCEPT !.score = s.score + value * m,
                  !.gemsCollected = s.gemsCollected + 1,
                  !.multiplier = m,
                  !.multiplierEndTime = newEndTime(t)]

collectGemStore(value) == collectGemOn(store, value, now)

collectGem(value) ==
    /\ store.gemsCollected < MaxGems
    /\ collectGemStore(value).score <= MaxRunScore
    /\ Commit(collectGemStore(value))
    /\ op' = Op("collectGem", "", value, "void")
    /\ lastPickup' = now
    /\ UNCHANGED <<now, timers, activatedAt, staleTimers>>

setDistance(dist) ==
    /\ Commit([store EXCEPT !.distance = dist])
    /\ op' = Op("setDistance", "", dist, "void")
    /\ UNCHANGED <<now, timers, lastPickup, activatedAt, staleTimers>>

(* advanceLevel: the one set() call of lines 209-215, on a given state *)
advanceLevelKeepsLetters(s) ==
    [s EXCEPT !.level = s.level + 1,
              !.laneCount = Min(s.laneCount + 2, MAX_LANES),
              !.status = "PLAYING",
              !.speed = s.speed + (RUN_SPEED_BASE * 4) \div 10]

advanceLevelResetsSpeed(s) ==
    [s EXCEPT !.level = s.level + 1,
              !.laneCount = Min(s.laneCount + 2, MAX_LANES),
              !.status = "PLAYING",
              !.speed = RUN_SPEED_BASE + (s.level * RUN_SPEED_BASE * 4) \div 10,
              !.collectedLetters = <<>>]

advanceLevelStore(s) ==
    [s EXCEPT !.level = s.level + 1,
              !.laneCount = Min(s.laneCount + 2, MAX_LANES),
              !.status = "PLAYING",
              !.speed = s.speed + (RUN_SPEED_BASE * 4) \div 10,
              !.collectedLetters = <<>>]

advanceLevel ==
    /\ store.level < MaxLevelCap
    /\ Commit(advanceLevelStore(store))
    /\ op' = Op("advanceLevel", "", 0, "void")
    /\ UNCHANGED <<now, timers, lastPickup, activatedAt, staleTimers>>

wordCompleteEarly(letters) == Len(letters) >= Len(GEMINI_TARGET) - 1

wordComplete(letters) == Len(letters) = Len(GEMINI_TARGET)

(* collectLetter: `updates` is built from the state read at entry; the branch
   that completes the word below MAX_LEVEL calls advanceLevel and returns
   before set(updates) *)
collectLetterOn(s, index, t) ==
    LET m == newMultiplier(s.multiplier, t, s.multiplierEndTime)
        letterScore == LETTER_SCORE * m
        updates == [s EXCEPT !.score = s.score + letterScore,
                             !.multiplier = m,
                             !.multiplierEndTime = newEndTime(t)]
        newLetters == Append(s.collectedLetters, index)
        withLetter == [updates EXCEPT !.collectedLetters = newLetters,
                                      !.speed = s.speed + RUN_SPEED_BASE \div 10]
    IN  IF ~Includes(s.collectedLetters, index)
        THEN IF wordComplete(newLetters)
             THEN IF s.level < MAX_LEVEL
                  THEN advanceLevelStore(s)
                  ELSE [withLetter EXCEPT !.status = "VICTORY",
                                          !.score = updates.score + VICTORY_BONUS]
             ELSE withLetter
        ELSE updates

collectLetterStore(index) == collectLetterOn(store, index, now)

collectLetterUpTo(index, maxScore) ==
    /\ collectLetterStore(index).score <= maxScore
    /\ Commit(collectLetterStore(index))
    /\ op' = Op("collectLetter", "", index, "void")
    /\ lastPickup' = now
    /\ UNCHANGED <<now, timers, activatedAt, staleTimers>>

collectLetter(index) == collectLetterUpTo(index, MaxRunScore)

openShopOn(s) == [s EXCEPT !.status = "SHOP"]

openShop ==
    /\ Commit(openShopOn(store))
    /\ op' = Op("openShop", "", 0, "void")
    /\ UNCHANGED <<now, timers, lastPickup, activatedAt, staleTimers>>

closeShop ==
    /\ Commit([store EXCEPT !.status = "PLAYING"])
    /\ op' = Op("closeShop", "", 0, "void")
    /\ UNCHANGED <<now, timers, lastPickup, activatedAt, staleTimers>>

canAffordAlways(cost) == TRUE

canAfford(cost) == store.score >= cost

healedLivesUncapped(lives, maxLives) == lives + 1

healedLives(lives, maxLives) == Min(lives + 1, maxLives)

paidStoreKeepsScore(cost) == store

paidStore(cost) == [store EXCEPT !.score = store.score - cost]

boughtStore(type, cost) ==
    LET paid == paidStore(cost)
    IN  CASE type = "DOUBLE_JUMP" -> [paid EXCEPT !.hasDoubleJump = TRUE]
          [] type = "MAX_LIFE" -> [paid EXCEPT !.maxLives = store.maxLives + 1,
                                               !.lives = store.lives + 1]
          [] type = "HEAL" -> [paid EXCEPT !.lives = healedLives(store.lives, store.maxLives)]
          [] type = "IMMORTAL" -> [paid EXCEPT !.hasImmortality = TRUE]

buyItem(type, cost) ==
    /\ type = "MAX_LIFE" /\ canAfford(cost) => store.maxLives < MaxLivesCap
    /\ IF canAfford(cost)
       THEN /\ Commit(boughtStore(type, cost))
            /\ op' = Op("buyItem", type, cost, "true")
       ELSE /\ Commit(store)
            /\ op' = Op("buyItem", type, cost, "false")
    /\ UNCHANGED <<now, timers, lastPickup, activatedAt, staleTimers>>

activateImmortality ==
    /\ IF store.hasImmortality /\ ~store.isImmortalityActive
       THEN /\ Commit([store EXCEPT !.isImmortalityActive = TRUE])
            /\ timers' = Append(timers, now + IMMORTALITY_MS)
            /\ activatedAt' = now
       ELSE /\ Commit(store)
            /\ UNCHANGED <<timers, activatedAt>>
    /\ op' = Op("activateImmortality", "", 0, "void")
    /\ UNCHANGED <<now, lastPickup, staleTimers>>

(* The setTimeout callback of activateImmortality: runs once, at or after its due time *)
immortalityTimeout ==
    /\ timers # <<>>
    /\ Head(timers) <= now
    /\ Commit([store EXCEPT !.isImmortalityActive = FALSE])
    /\ timers' = Tail(timers)
    /\ op' = Op("immortalityTimeout", IF staleTimers > 0 THEN "stale" ELSE "current", 0, "void")
    /\ staleTimers' = IF staleTimers > 0 THEN staleTimers - 1 ELSE 0
    /\ activatedAt' = -1
    /\ UNCHANGED <<now, lastPickup>>

setStatus(status) ==
    /\ Commit([store EXCEPT !.status = status])
    /\ op' = Op("setStatus", status, 0, "void")
    /\ UNCHANGED <<now, timers, lastPickup, activatedAt, staleTimers>>

increaseLevel ==
    /\ store.level < MaxLevelCap
    /\ Commit([store EXCEPT !.level = store.level + 1])
    /\ op' = Op("increaseLevel", "", 0, "void")
    /\ UNCHANGED <<now, timers, lastPickup, activatedAt, staleTimers>>

(* Time passes between two calls *)
advanceTime(d, horizon) ==
    /\ now + d <= horizon
    /\ now' = now + d
    /\ op' = Op("advanceTime", "", d, "void")
    /\ UNCHANGED <<store, timers, lastPickup, activatedAt, staleTimers>>
    /\ UNCHANGED <<objectsRef, distanceTraveled, nextLetterDistance, prevStatus, prevLevel, events,
                   lastSpawn, lastFrame, staleWorld>>

----------------------------------------------------------------------------
(* The frame callback of the LevelManager (useFrame, lines 239-620).  The
   values it closes over (status, speed, level, laneCount, collectedLetters)
   are those of the last render, which is the store at the start of the task;
   the store operations it calls read and write the current store.  The
   results of Math.random() are the input rnd:
     beamLanes  the lanes of the beams of a boss attack (one or two)
     kind       "none", "gem", "alien" or "obstacle": the spawn branch taken
     lanes      the lane of a letter or gem, the shuffled lanes of a row
     count      how many aliens or obstacles the row has
     letter     the index chosen among the letters still missing
     gems       the places of the row whose obstacle carries a bonus gem *)

Abs(a) == IF a < 0 THEN 0 - a ELSE a

Lanes(laneCount) == (0 - laneCount \div 2)..(laneCount \div 2)

isDistinct(seq) == \A i, j \in 1..Len(seq) : i # j => seq[i] # seq[j]

stepRunsAlways(status) == TRUE

stepRuns(status) == status = "PLAYING"

(* 'player-hit' is dispatched synchronously; its listener calls takeDamage *)
playerHitListener(s) == takeDamageOn(s)

isBoss(obj) == obj.type = "BOSS"

hasBossLast(objs) == objs # <<>> /\ isBoss(objs[Len(objs)])

hasBoss(objs) == \E i \in 1..Len(objs) : isBoss(objs[i])

bossIndex(objs) ==
    CHOOSE i \in 1..Len(objs) : isBoss(objs[i]) /\ \A j \in 1..(i - 1) : ~isBoss(objs[j])

Boss == Object("BOSS", 0, BOSS_Y, BOSS_Z)

Beam(lane) ==
    [Object("BOSS_BEAM", lane * LANE_WIDTH, BEAM_Y, BEAM_Z)
        EXCEPT !.beamState = "WARNING", !.beamLane = lane]

(* Boss logic of level 3: what it leaves in objectsRef.current *)
attackDueEarly(timer) == timer >= BOSS_ATTACK_MS

attackDueSoon(timer) == timer > BEAM_WARNING_MS

attackDue(timer) == timer > BOSS_ATTACK_MS

bossLogic(objs, dt, beamLanes) ==
    IF ~hasBoss(objs)
    THEN [objs |-> Append(objs, Boss), changed |-> TRUE, beams |-> <<>>,
          events |-> <<Event("particle-burst", "BOSS")>>]
    ELSE LET i == bossIndex(objs)
             timer == objs[i].attackTimer + dt
             attacks == objs[i].active /\ attackDue(timer)
             boss == [objs[i] EXCEPT !.z = BOSS_Z,
                                     !.attackTimer = IF ~objs[i].active THEN @
                                                     ELSE IF attacks THEN 0 ELSE timer]
             beams == IF attacks THEN [k \in 1..Len(beamLanes) |-> Beam(beamLanes[k])]
                      ELSE <<>>
         IN  [objs |-> [objs EXCEPT ![i] = boss] \o beams,
              changed |-> attacks, beams |-> beams, events |-> <<>>]

(* One pass of the loop over currentObjects.  acc: the store, keptObjects,
   the array as mutated in place, newSpawns, the events, hasChanges, and the
   time of the last pickup of the chain *)
damages(s) == ~s.isImmortalityActive

beamPhaseLate(timer) ==
    IF timer <= BEAM_WARNING_MS THEN "WARNING"
    ELSE IF timer < BEAM_ACTIVE_MS THEN "ACTIVE"
    ELSE "EXPIRED"

beamPhase(timer) ==
    IF timer < BEAM_WARNING_MS THEN "WARNING"
    ELSE IF timer < BEAM_ACTIVE_MS THEN "ACTIVE"
    ELSE "EXPIRED"

stepBeam(acc, obj, dt, player, t) ==
    LET timer == obj.beamTimer + dt
        hit == Abs(obj.x - player.x) < HIT_DX
        warning == [obj EXCEPT !.beamTimer = timer, !.beamState = "WARNING"]
        active == [obj EXCEPT !.beamTimer = timer, !.beamState = "ACTIVE",
                              !.hits = IF hit THEN @ + 1 ELSE @]
        expired == [obj EXCEPT !.beamTimer = timer, !.active = FALSE]
    IN  IF beamPhase(timer) = "WARNING"
        THEN [acc EXCEPT !.kept = Append(@, warning), !.all = Append(@, warning)]
        ELSE IF beamPhase(timer) = "ACTIVE"
        THEN [acc EXCEPT !.kept = Append(@, active), !.all = Append(@, active),
                         !.s = IF hit THEN playerHitListener(@) ELSE @,
                         !.events = IF hit THEN Append(@, Event("player-hit", "BOSS_BEAM"))
                                    ELSE @,
                         !.lastPickup = IF hit /\ damages(acc.s) THEN -1 ELSE @]
        ELSE [acc EXCEPT !.all = Append(@, expired), !.changed = TRUE]

moveAmount(obj, dist, dt) ==
    IF obj.type = "MISSILE" THEN dist + (MISSILE_SPEED * dt * UNIT) \div 1000 ELSE dist

Missile(alien) == Object("MISSILE", alien.x, MISSILE_Y, alien.z + MISSILE_AHEAD)

objBottom(obj) ==
    IF obj.type = "OBSTACLE" THEN 0
    ELSE IF obj.type = "MISSILE" THEN UNIT \div 2
    ELSE obj.y - UNIT \div 2

objTop(obj) ==
    IF obj.type = "OBSTACLE" THEN OBSTACLE_HEIGHT
    ELSE IF obj.type = "MISSILE" THEN (3 * UNIT) \div 2
    ELSE obj.y + UNIT \div 2

inPortalLane(x, z, player) == Abs(z - player.z) < PORTAL_DZ /\ Abs(x - player.x) < HIT_DX

inPortal(x, z, player) == Abs(z - player.z) < PORTAL_DZ

staysActive(active, collided) == active

(* hasChanges after the test against REMOVE_DISTANCE *)
removedUnmarked(changed, removed) == changed

markRemoved(changed, removed) == changed \/ removed

deactivated(active, collided) == active /\ ~collided

stepTrackObject(acc, obj, dist, dt, player, t) ==
    LET prevZ == obj.z
        z == obj.z + moveAmount(obj, dist, dt)
        fires == obj.type = "ALIEN" /\ obj.active /\ ~obj.hasFired /\ z > ALIEN_FIRE_Z
        moved == [obj EXCEPT !.z = z, !.hasFired = @ \/ fires]
        inZZone == prevZ < player.z + Z_THRESHOLD /\ z > player.z - Z_THRESHOLD
        entersPortal == obj.active /\ obj.type = "SHOP_PORTAL" /\ inPortal(obj.x, z, player)
        touches == /\ obj.active /\ obj.type # "SHOP_PORTAL"
                   /\ inZZone /\ Abs(obj.x - player.x) < HIT_DX
        isDamageSource == obj.type \in {"OBSTACLE", "ALIEN", "MISSILE"}
        isHit == /\ touches /\ isDamageSource
                 /\ player.y < objTop(obj) /\ player.y + PLAYER_HEIGHT > objBottom(obj)
        isPickup == touches /\ ~isDamageSource /\ Abs(obj.y - player.y) < PICKUP_DY
        isGem == isPickup /\ obj.type = "GEM"
        isLetter == isPickup /\ obj.type = "LETTER" /\ obj.targetIndex # -1
        collided == entersPortal \/ isHit \/ isPickup
        final == [moved EXCEPT !.active = deactivated(@, collided),
                               !.hits = IF collided THEN @ + 1 ELSE @,
                               !.tested = @ \/ (obj.active /\ IF obj.type = "SHOP_PORTAL"
                                                               THEN inPortal(obj.x, z, player)
                                                               ELSE inZZone)]
        removed == z > REMOVE_DISTANCE
        keep == ~entersPortal /\ ~removed
        s1 == IF entersPortal THEN openShopOn(acc.s)
              ELSE IF isHit THEN playerHitListener(acc.s)
              ELSE acc.s
        s2 == IF isGem
              THEN collectGemOn(s1, IF obj.points # 0 THEN obj.points ELSE GEM_POINTS, t)
              ELSE s1
        s3 == IF isLetter THEN collectLetterOn(s2, obj.targetIndex, t) ELSE s2
        dispatched ==
            (IF fires THEN <<Event("particle-burst", obj.type)>> ELSE <<>>)
            \o (IF entersPortal THEN <<Event("openShop", obj.type)>> ELSE <<>>)
            \o (IF isHit THEN <<Event("player-hit", obj.type)>> ELSE <<>>)
            \o (IF isHit /\ obj.type = "MISSILE" THEN <<Event("particle-burst", obj.type)>>
                ELSE <<>>)
            \o (IF isGem THEN <<Event("gem-collect", obj.type)>> ELSE <<>>)
            \o (IF isLetter THEN <<Event("letter-collect", obj.type)>> ELSE <<>>)
            \o (IF isPickup THEN <<Event("particle-burst", obj.type)>> ELSE <<>>)
    IN  [s |-> s3,
         kept |-> IF keep THEN Append(acc.kept, final) ELSE acc.kept,
         all |-> Append(acc.all, final),
         spawns |-> IF fires THEN Append(acc.spawns, Missile(moved)) ELSE acc.spawns,
         events |-> acc.events \o dispatched,
         changed |-> markRemoved(acc.changed \/ fires \/ entersPortal \/ isHit \/ isPickup,
                                 removed),
         lastPickup |-> IF isGem \/ isLetter THEN t
                        ELSE IF isHit /\ damages(acc.s) THEN -1
                        ELSE acc.lastPickup]

stepObject(acc, obj, dist, dt, player, t) ==
    IF obj.type = "BOSS"
    THEN [acc EXCEPT !.kept = Append(@, obj), !.all = Append(@, obj)]
    ELSE IF obj.type = "BOSS_BEAM"
    THEN stepBeam(acc, obj, dt, player, t)
    ELSE stepTrackObject(acc, obj, dist, dt, player, t)

(* The loop: each iteration's result is bound once before the next one reads it *)
RECURSIVE stepObjects(_, _, _, _, _, _, _)
stepObjects(acc, objs, i, dist, dt, player, t) ==
    IF i > Len(objs) THEN acc
    ELSE CHOOSE out \in {stepObjects(next, objs, i + 1, dist, dt, player, t) :
                            next \in {stepObject(acc, objs[i], dist, dt, player, t)}} : TRUE

(* Spawning: the frontier, the gap and the place of the next batch *)
isStatic(obj) == obj.type \notin {"MISSILE", "BOSS", "BOSS_BEAM"}

furthestZ(objs) ==
    LET zs == {objs[i].z : i \in {k \in 1..Len(objs) : isStatic(objs[k])}}
    IN  IF zs = {} THEN EMPTY_TRACK_Z
        ELSE CHOOSE z \in zs : \A other \in zs : z <= other

(* (12 + speed * 0.4) * densityModifier, speed in world units per second *)
minGap(speed, level) ==
    LET gap == MIN_GAP + (2 * speed * 4 * UNIT) \div 10
    IN  IF level = 3 THEN (gap * 3) \div 2 ELSE gap

spawnZAtHorizon(furthest, gap) == 0 - SPAWN_DISTANCE

spawnZ(furthest, gap) == Min(furthest - gap, 0 - SPAWN_DISTANCE)

availableIndices(letters) == {i \in 0..(WORD_LENGTH - 1) : ~Includes(letters, i)}

Letter(lane, index, z, batch) ==
    [Object("LETTER", lane * LANE_WIDTH, LETTER_Y, z)
        EXCEPT !.targetIndex = index, !.batch = batch]

Gem(lane, y, points, z, batch) ==
    [Object("GEM", lane * LANE_WIDTH, y, z) EXCEPT !.points = points, !.batch = batch]

Alien(lane, z, batch) ==
    [Object("ALIEN", lane * LANE_WIDTH, ALIEN_Y, z) EXCEPT !.batch = batch]

Obstacle(lane, z, batch) ==
    [Object("OBSTACLE", lane * LANE_WIDTH, OBSTACLE_HEIGHT \div 2, z) EXCEPT !.batch = batch]

RECURSIVE obstacleRow(_, _, _, _, _, _)
obstacleRow(lanes, count, gems, z, batch, i) ==
    IF i > count THEN <<>>
    ELSE <<Obstacle(lanes[i], z, batch)>>
         \o (IF i \in gems
             THEN <<Gem(lanes[i], OBSTACLE_HEIGHT + UNIT, BONUS_GEM_POINTS, z, batch)>>
             ELSE <<>>)
         \o obstacleRow(lanes, count, gems, z, batch, i + 1)

(* The outcomes Math.random() can give in a state with these closure values *)
validDraw(rnd, level, laneCount, letters) ==
    /\ Len(rnd.beamLanes) \in 1..2
    /\ isDistinct(rnd.beamLanes)
    /\ \A i \in 1..Len(rnd.beamLanes) : rnd.beamLanes[i] \in Lanes(laneCount)
    /\ rnd.kind \in {"none", "gem", "alien", "obstacle"}
    /\ rnd.kind = "alien" => (level >= 2 /\ rnd.count <= 2)
    /\ rnd.kind = "obstacle" => (rnd.count <= 3 /\ (rnd.count = 3 => level # 3))
    /\ rnd.count \in 1..Len(rnd.lanes)
    /\ isDistinct(rnd.lanes)
    /\ \A i \in 1..Len(rnd.lanes) : rnd.lanes[i] \in Lanes(laneCount)
    /\ availableIndices(letters) # {} => rnd.letter \in availableIndices(letters)
    /\ rnd.gems \subseteq 1..rnd.count

(* The batch of this frame, empty when nothing is spawned *)
spawnBatch(rnd, isLetterDue, level, letters, z, batch) ==
    IF isLetterDue
    THEN IF availableIndices(letters) # {}
         THEN <<Letter(rnd.lanes[1], rnd.letter, z, batch)>>
         ELSE <<Gem(rnd.lanes[1], GEM_Y, GEM_POINTS, z, batch)>>
    ELSE CASE rnd.kind = "none" -> <<>>
           [] rnd.kind = "gem" -> <<Gem(rnd.lanes[1], GEM_Y, GEM_POINTS, z, batch)>>
           [] rnd.kind = "alien" -> [i \in 1..rnd.count |-> Alien(rnd.lanes[i], z, batch)]
           [] rnd.kind = "obstacle" -> obstacleRow(rnd.lanes, rnd.count, rnd.gems, z, batch, 1)

(* What one frame computes: the store, objectsRef.current and the trackers as
   the callback leaves them, what it dispatched and what it spawned.  First
   the part after the loop: newSpawns added, the spawn decision, the commit of
   keptObjects when hasChanges *)
frameOutcome(loop, beams, traveled, player, rnd) ==
    LET speed == store.speed
        level == store.level
        collectedLetters == store.collectedLetters
        keptObjects == loop.kept \o loop.spawns
        furthest == furthestZ(keptObjects)
        gap == minGap(speed, level)
        z == spawnZ(furthest, gap)
        isLetterDue == traveled >= nextLetterDistance
        batch == IF furthest > 0 - SPAWN_DISTANCE
                 THEN spawnBatch(rnd, isLetterDue, level, collectedLetters, z,
                                 nextBatch(keptObjects))
                 ELSE <<>>
        spawnsLetter == /\ furthest > 0 - SPAWN_DISTANCE
                        /\ isLetterDue
                        /\ availableIndices(collectedLetters) # {}
        hasChanges == loop.changed \/ batch # <<>>
    IN  [s |-> loop.s,
         objs |-> IF hasChanges THEN keptObjects \o batch ELSE loop.all,
         traveled |-> traveled,
         nextLetter |-> IF spawnsLetter
                        THEN nextLetterDistance + getLetterInterval(level)
                        ELSE nextLetterDistance,
         events |-> loop.events \o (IF hasChanges THEN <<Event("render", "step")>>
                                   ELSE <<>>),
         lastSpawn |-> IF batch = <<>> THEN NoSpawn
                       ELSE [count |-> Len(batch), furthestZ |-> furthest,
                             minGap |-> gap, spawnZ |-> z],
         lastFrame |-> [player |-> player, beams |-> beams, frontier |-> furthest,
                        spawned |-> batch,
                        skipped |-> IF hasChanges THEN <<>> ELSE keptObjects \o batch],
         lastPickup |-> loop.lastPickup]

(* The frame from the boss logic on: the loop over the objects the boss logic
   left, its result bound once *)
loopOutcome(boss, dist, dt, player, rnd) ==
    CHOOSE out \in
        {frameOutcome(loop, boss.beams, distanceTraveled + dist, player, rnd) :
            loop \in {stepObjects([s |-> tickComboOn(store, now), kept |-> <<>>,
                                   all |-> <<>>, spawns |-> <<>>,
                                   events |-> boss.events, changed |-> boss.changed,
                                   lastPickup |-> lastPickup],
                                  boss.objs, 1, dist, dt, player, now)}} : TRUE

rawDelta(delta) == delta

safeDelta(delta) == Min(delta, MAX_DELTA)

stepOutcome(delta, player, rnd) ==
    LET dt == safeDelta(delta)
        dist == (store.speed * dt * 2) \div 25
    IN  CHOOSE out \in
            {loopOutcome(boss, dist, dt, player, rnd) :
                boss \in {IF store.level = 3
                          THEN bossLogic(objectsRef, dt, rnd.beamLanes)
                          ELSE [objs |-> objectsRef, changed |-> FALSE, beams |-> <<>>,
                                events |-> <<>>]}} : TRUE

(* The frame callback, then the render its store writes cause.  Date.now() is
   the clock `now`; delta is the frame time the renderer reports *)
step(delta, player, rnd) ==
    /\ op' = Op("step", store.status, delta, "void")
    /\ UNCHANGED <<now, timers, activatedAt, staleTimers>>
    /\ IF ~stepRuns(store.status)
       THEN /\ UNCHANGED <<store, objectsRef, distanceTraveled, nextLetterDistance, staleWorld,
                           prevStatus, prevLevel, lastPickup>>
            /\ events' = <<>>
            /\ lastSpawn' = NoSpawn
            /\ lastFrame' = NoFrame
       ELSE /\ validDraw(rnd, store.level, store.laneCount, store.collectedLetters)
            /\ \E out \in {stepOutcome(delta, player, rnd)} :
                  /\ render(out.s, out.objs, out.traveled, out.nextLetter)
                  /\ events' = out.events
                  /\ lastSpawn' = out.lastSpawn
                  /\ lastFrame' = out.lastFrame
                  /\ lastPickup' = out.lastPickup

----------------------------------------------------------------------------
(* Specifications *)

(* Letters offered in word order: the next letter of the word, or one
   already collected *)
wordOrderInputs == {i \in 0..(WORD_LENGTH - 1) : i <= Len(store.collectedLetters)}

(* Shop, damage and immortality, with long pauses between the calls *)
Next ==
    \/ startGame
    \/ restartGame
    \/ takeDamage
    \/ \E amount \in ScoreAmounts : addScore(amount)
    \/ \E value \in GemValues : collectGem(value)
    \/ openShop
    \/ closeShop
    \/ \E type \in ItemTypes, cost \in ItemCosts : buyItem(type, cost)
    \/ (Len(timers) < MaxTimers /\ activateImmortality)
    \/ immortalityTimeout
    \/ advanceTime(TimerStep, MaxTimerTime)

Spec == Init /\ [][Next]_vars

(* Pickups of a run with short pauses: the combo rule, letters in word order *)
NextCombo ==
    \/ startGame
    \/ tickCombo
    \/ \E value \in GemValues : collectGem(value)
    \/ \E index \in wordOrderInputs : collectLetter(index)
    \/ advanceLevel
    \/ advanceTime(TimeStep, MaxTime)

SpecCombo == Init /\ [][NextCombo]_vars

(* Letters in any order *)
NextLetters ==
    \/ startGame
    \/ \E index \in 0..(WORD_LENGTH - 1) : collectLetter(index)
    \/ advanceLevel

SpecLetters == Init /\ [][NextLetters]_vars

(* The next letter of the word, none when the word is complete *)
nextLetterInputs == {i \in 0..(WORD_LENGTH - 1) : i = Len(store.collectedLetters)}

(* Every operation that writes status, level, speed or the letters, called in
   any status; letters in word order, each once *)
NextStatus ==
    \/ startGame
    \/ restartGame
    \/ takeDamage
    \/ \E index \in nextLetterInputs : collectLetter(index)
    \/ advanceLevel
    \/ increaseLevel
    \/ openShop
    \/ closeShop
    \/ \E status \in GameStatus : setStatus(status)

SpecStatus == Init /\ [][NextStatus]_vars

(* Immortality over two runs: bought, activated, the run restarted while the
   expiry callback is pending, bought and activated again *)
NextImmortality ==
    \/ startGame
    \/ restartGame
    \/ takeDamage
    \/ \E amount \in ScoreAmounts : addScore(amount)
    \/ \E cost \in ItemCosts : buyItem("IMMORTAL", cost)
    \/ (Len(timers) < MaxRunTimers /\ activateImmortality)
    \/ immortalityTimeout
    \/ advanceTime(TimerStep, MaxTimerTime)

SpecImmortality == Init /\ [][NextImmortality]_vars

(* The world: runs of frames of MAX_DELTA ms with the player standing in the
   middle lane, levels raised by advanceLevel, the run ended, restarted and
   sent back to the menu *)
WorldPlayers == {[x |-> 0, y |-> 0, z |-> 0]}

WorldDraws ==
    [beamLanes : {<<0>>},
     kind : {"none", "alien", "obstacle"},
     lanes : {<<0, 1>>},
     count : 1..MaxRow,
     letter : {0},
     gems : {{}, {1}}]

NextWorld ==
    \/ startGame
    \/ restartGame
    \/ advanceLevel
    \/ \E status \in GameStatus : setStatus(status)
    \/ /\ distanceTraveled < MaxDistance
       /\ \E player \in WorldPlayers, rnd \in WorldDraws : step(MAX_DELTA, player, rnd)

SpecWorld == Init /\ [][NextWorld]_vars

(* One long run: started once from the menu, frames of MAX_DELTA ms, every
   spawn decision an obstacle with or without its bonus gem, the level raised
   at any moment *)
RunDraws ==
    [beamLanes : {<<0>>},
     kind : {"obstacle"},
     lanes : {<<0, 1>>},
     count : {1},
     letter : {0},
     gems : {{}, {1}}]

NextRun ==
    \/ (store.status = "MENU" /\ startGame)
    \/ advanceLevel
    \/ /\ distanceTraveled < MaxRunDistance
       /\ \E player \in WorldPlayers, rnd \in RunDraws : step(MAX_DELTA, player, rnd)

SpecRun == Init /\ [][NextRun]_vars

(* The combo between frames: gems picked up with short pauses, the shop
   opened and closed, frames of MAX_DELTA ms that spawn nothing.  The render
   loop keeps calling the frame callback *)
IdleDraws ==
    [beamLanes : {<<0>>}, kind : {"none"}, lanes : {<<0>>}, count : {1},
     letter : {0}, gems : {{}}]

TickFrame ==
    /\ distanceTraveled < MaxDistance
    /\ \E player \in WorldPlayers, rnd \in IdleDraws : step(MAX_DELTA, player, rnd)

NextTick ==
    \/ startGame
    \/ \E value \in GemValues : collectGem(value)
    \/ openShop
    \/ closeShop
    \/ tickCombo
    \/ advanceTime(TimeStep, MaxTime)
    \/ TickFrame

SpecTick == Init /\ [][NextTick]_vars /\ WF_vars(TickFrame)

(* The boss: a run taken to level 3 before its first frame, the shop of the
   level-up portals closed again, then frames whose reported time is at or
   above the clamp, the player standing in the middle lane or one lane to the
   right, the boss aiming at one or two lanes *)
BossPlayers == {Origin, [Origin EXCEPT !.x = LANE_WIDTH]}

BossDraws ==
    [beamLanes : {<<0>>, <<1, 0>>}, kind : {"none"}, lanes : {<<0>>}, count : {1},
     letter : {0, 1}, gems : {{}}]

FrameDeltas == {MAX_DELTA, 2 * MAX_DELTA}

BossFrame ==
    /\ distanceTraveled < MaxBossDistance
    /\ \E delta \in FrameDeltas, player \in BossPlayers, rnd \in BossDraws :
          step(delta, player, rnd)

NextBoss ==
    \/ (store.status = "MENU" /\ startGame)
    \/ (store.status = "PLAYING" /\ distanceTraveled = 0 /\ store.level < MAX_LEVEL
          /\ advanceLevel)
    \/ (store.status = "SHOP" /\ closeShop)
    \/ BossFrame

SpecBoss == Init /\ [][NextBoss]_vars /\ WF_vars(BossFrame)

(* The boss under frames of mixed length: the reported time is the clamp or
   half of it, so the attack timer crosses its threshold at different
   offsets and the beams of one attack start at different ages.  A run may
   be restarted in the frame after an attack, which leaves the boss and its
   beams on the track at level 1; level 3 is then reached again at once or
   when the beams left over turn active *)
BeamDeltas == {MAX_DELTA \div 2, MAX_DELTA}

isTurningActive(obj) == obj.type = "BOSS_BEAM" /\ obj.beamTimer = BEAM_WARNING_MS

isBeamLevelUp ==
    \/ distanceTraveled = 0
    \/ /\ hasBoss(objectsRef)
       /\ \/ op.name \in {"restartGame", "advanceLevel"}
          \/ SelectSeq(objectsRef, isTurningActive) # <<>>

BeamFrame ==
    /\ distanceTraveled < MaxBeamDistance
    /\ \E delta \in BeamDeltas, player \in BossPlayers, rnd \in BossDraws :
          step(delta, player, rnd)

NextBeams ==
    \/ (store.status = "MENU" /\ startGame)
    \/ (store.status = "PLAYING" /\ store.level = MAX_LEVEL /\ lastFrame.beams # <<>>
          /\ restartGame)
    \/ (store.status = "PLAYING" /\ store.level < MAX_LEVEL /\ isBeamLevelUp
          /\ advanceLevel)
    \/ (store.status = "SHOP" /\ closeShop)
    \/ BeamFrame

SpecBeams == Init /\ [][NextBeams]_vars

(* The track: a run at level 1 whose spawn decisions are obstacles with a
   bonus gem, taken to level 2 before its first frame, after 130 frames or
   never, and whose spawn decisions at level 2 are aliens; everything is
   placed in the middle lane, letters come when due.  The player runs in the middle lane, runs one lane to the
   right, hops (into the obstacle and its gem) or jumps (over the obstacle) *)
TrackPlayers ==
    {Origin, [Origin EXCEPT !.x = LANE_WIDTH], [Origin EXCEPT !.y = UNIT],
     [Origin EXCEPT !.y = OBSTACLE_HEIGHT]}

TrackDraws ==
    [beamLanes : {<<0>>}, kind : {"obstacle", "alien"}, lanes : {<<0>>}, count : {1},
     letter : 0..(WORD_LENGTH - 1), gems : {{1}}]

LevelUpDistances == {0, 130 * UNIT}

TrackFrame ==
    /\ distanceTraveled < MaxTrackDistance
    /\ \E player \in TrackPlayers, rnd \in TrackDraws :
          /\ rnd.kind = (IF store.level = 1 THEN "obstacle" ELSE "alien")
          /\ rnd.letter = Len(store.collectedLetters)
          /\ step(MAX_DELTA, player, rnd)

NextTrack ==
    \/ (store.status = "MENU" /\ startGame)
    \/ (store.status = "PLAYING" /\ distanceTraveled \in LevelUpDistances /\ store.level = 1
          /\ advanceLevel)
    \/ (store.status = "SHOP" /\ closeShop)
    \/ TrackFrame

SpecTrack == Init /\ [][NextTrack]_vars

(* The way to the shop: the same track up to the portal of the level-up, the
   player running in the middle lane or one lane to the right.  The render
   loop keeps calling the frame callback *)
PortalFrame ==
    /\ distanceTraveled < MaxPortalDistance
    /\ \E player \in BossPlayers, rnd \in TrackDraws :
          /\ rnd.kind = (IF store.level = 1 THEN "obstacle" ELSE "alien")
          /\ rnd.letter = Len(store.collectedLetters)
          /\ step(MAX_DELTA, player, rnd)

NextPortal ==
    \/ (store.status = "MENU" /\ startGame)
    \/ (store.status = "PLAYING" /\ distanceTraveled \in LevelUpDistances /\ store.level = 1
          /\ advanceLevel)
    \/ (store.status = "SHOP" /\ closeShop)
    \/ PortalFrame

SpecPortal == Init /\ [][NextPortal]_vars /\ WF_vars(PortalFrame)

(* Every speed a run can reach: letters collected in word order before the
   first frame, the level raised by each completed word, then frames along
   the track with the shop of each portal closed again *)
SpeedFrame ==
    /\ distanceTraveled < MaxSpeedDistance
    /\ \E delta \in FrameDeltas, player \in TrackPlayers, rnd \in TrackDraws :
          /\ rnd.kind = (IF store.level = 1 THEN "obstacle" ELSE "alien")
          /\ rnd.letter = Len(store.collectedLetters)
          /\ step(delta, player, rnd)

NextSpeed ==
    \/ (store.status = "MENU" /\ startGame)
    \/ (store.status = "PLAYING" /\ distanceTraveled = 0
          /\ \E index \in nextLetterInputs : collectLetterUpTo(index, MaxSpeedScore))
    \/ (store.status = "SHOP" /\ closeShop)
    \/ SpeedFrame

SpecSpeed == Init /\ [][NextSpeed]_vars

----------------------------------------------------------------------------
(* Properties *)

(* The combo rule as the documentation states it, written out on a state *)
ruleMultiplier ==
    IF now < store.multiplierEndTime
    THEN (IF store.multiplier + 1 < MAX_MULTIPLIER THEN store.multiplier + 1 ELSE MAX_MULTIPLIER)
    ELSE 1

(* The letter of this step is new and is the last one missing from the word *)
completesWord(index) ==
    /\ \A i \in 1..Len(store.collectedLetters) : store.collectedLetters[i] # index
    /\ Len(store.collectedLetters) = WORD_LENGTH - 1

(* C1: during a run, a pickup (collectGem or collectLetter) made less than
   COMBO_WINDOW_MS after the previous pickup raises the multiplier by exactly one, up to
   MAX_MULTIPLIER where it stays; a pickup made COMBO_WINDOW_MS or more after
   the previous one, or the first pickup of a run, leaves the multiplier at 1.
   From score 0 a first gem of 50 gives score 50 and multiplier 1, and a second
   gem of 50 one short pause (50 ms) later gives multiplier 2 and score 150. *)
C1_ComboChain ==
    [][(op'.name \in {"collectGem", "collectLetter"} /\ store.status = "PLAYING") =>
        /\ IF lastPickup # -1 /\ now - lastPickup < COMBO_WINDOW_MS
           THEN store'.multiplier =
                  (IF store.multiplier + 1 < MAX_MULTIPLIER
                   THEN store.multiplier + 1 ELSE MAX_MULTIPLIER)
           ELSE store'.multiplier = 1
        /\ (op'.name = "collectGem" /\ op'.n = 50 /\ store.score = 0 /\ lastPickup = -1)
              => (store'.score = 50 /\ store'.multiplier = 1)
        /\ (op'.name = "collectGem" /\ op'.n = 50 /\ store.score = 50
              /\ store.multiplier = 1 /\ lastPickup # -1 /\ lastPickup = now - TimeStep)
              => (store'.score = 150 /\ store'.multiplier = 2)
    ]_vars

(* C2: every collectLetter call of a run, whatever the letter (new, duplicate, the one
   completing the word below MAX_LEVEL or at MAX_LEVEL), adds
   500 * newMultiplier to the score (plus the victory bonus when it wins the
   run) and sets multiplier = newMultiplier and
   multiplierEndTime = now + COMBO_WINDOW_MS. *)
C2_LetterAlwaysScores ==
    [][(op'.name = "collectLetter" /\ store.status = "PLAYING") =>
        /\ store'.score = store.score + LETTER_SCORE * ruleMultiplier
                          + (IF completesWord(op'.n) /\ store.level >= MAX_LEVEL
                             THEN VICTORY_BONUS ELSE 0)
        /\ store'.multiplier = ruleMultiplier
        /\ store'.multiplierEndTime = now + COMBO_WINDOW_MS
    ]_vars

(* C3: takeDamage while isImmortalityActive changes no field of the store. *)
C3_ImmortalDamageChangesNothing ==
    [][(op'.name = "takeDamage" /\ store.isImmortalityActive) => store' = store]_vars

C3_Witness ==
    /\ op.name = "takeDamage"
    /\ store.isImmortalityActive
    /\ store.multiplier > 1
    /\ store.lives = 3

(* C4: without immortality, takeDamage with lives > 1 lowers lives by exactly
   one and keeps status and speed; with lives <= 1 it sets lives = 0,
   status = GAME_OVER and speed = 0; lives never goes below 0, however often
   takeDamage is called again. *)
C4_DamageLowersLives ==
    [][(op'.name = "takeDamage") =>
        /\ ~store.isImmortalityActive =>
              IF store.lives > 1
              THEN /\ store'.lives = store.lives - 1
                   /\ store'.status = store.status
                   /\ store'.speed = store.speed
              ELSE /\ store'.lives = 0
                   /\ store'.status = "GAME_OVER"
                   /\ store'.speed = 0
        /\ store.lives = 0 => store'.lives = 0
        /\ store'.lives >= 0
    ]_vars

C4_Witness ==
    /\ op.name = "takeDamage"
    /\ ~store.isImmortalityActive
    /\ store.lives = 0
    /\ store.status = "GAME_OVER"
    /\ store.speed = 0

(* C5: below MAX_LEVEL, collecting the six distinct letters in any order
   advances the level exactly once, on the sixth distinct letter and not
   before: that call raises level by one, sets laneCount to
   min(laneCount + 2, 9), empties collectedLetters, sets status PLAYING and
   raises speed by 0.4 * RUN_SPEED_BASE; every other collectLetter call leaves
   level and laneCount alone and collectedLetters non-empty. *)
C5_SixthLetterAdvancesLevel ==
    [][(op'.name = "collectLetter" /\ store.level < MAX_LEVEL) =>
        IF completesWord(op'.n)
        THEN /\ store'.level = store.level + 1
             /\ store'.laneCount = (IF store.laneCount + 2 < 9 THEN store.laneCount + 2 ELSE 9)
             /\ store'.collectedLetters = <<>>
             /\ store'.status = "PLAYING"
             /\ 10 * store'.speed = 10 * store.speed + 4 * RUN_SPEED_BASE
        ELSE /\ store'.level = store.level
             /\ store'.laneCount = store.laneCount
             /\ store'.collectedLetters # <<>>
    ]_vars

C5_Witness ==
    /\ op.name = "collectLetter"
    /\ op.n = 0
    /\ store.collectedLetters = <<>>
    /\ store.level = 2
    /\ store.laneCount = 5
    /\ store.status = "PLAYING"

(* C6: at MAX_LEVEL the collectLetter call that collects the sixth distinct
   letter sets status = VICTORY and raises the score by exactly
   500 * newMultiplier + 5000, leaving level and laneCount alone and keeping
   the six letters; no earlier letter of that level changes the status. *)
C6_SixthLetterWins ==
    [][(op'.name = "collectLetter" /\ store.level = MAX_LEVEL) =>
        IF completesWord(op'.n)
        THEN /\ store'.status = "VICTORY"
             /\ store'.score = store.score + 500 * ruleMultiplier + 5000
             /\ store'.level = store.level
             /\ store'.laneCount = store.laneCount
             /\ store'.collectedLetters = Append(store.collectedLetters, op'.n)
        ELSE store'.status = store.status
    ]_vars

C6_Witness ==
    /\ op.name = "collectLetter"
    /\ store.status = "VICTORY"
    /\ store.level = MAX_LEVEL
    /\ Len(store.collectedLetters) = WORD_LENGTH
    /\ store.multiplier = 2

(* C7: buyItem(kind, cost) with score < cost returns false and leaves the
   whole store unchanged, for every kind. *)
C7_CannotAffordChangesNothing ==
    [][(op'.name = "buyItem" /\ store.score < op'.n) =>
        (op'.ret = "false" /\ store' = store)]_vars

C7_Witness ==
    /\ op.name = "buyItem"
    /\ op.kind = "MAX_LIFE"
    /\ op.ret = "false"
    /\ store.score < op.n
    /\ store.lives < store.maxLives

(* C8: buyItem(kind, cost) with score >= cost returns true, lowers the score
   by exactly cost and applies the effect of its kind and nothing else:
   DOUBLE_JUMP sets hasDoubleJump, MAX_LIFE raises maxLives and lives by one,
   HEAL sets lives to min(lives + 1, maxLives), IMMORTAL sets hasImmortality. *)
C8_PurchaseEffect ==
    [][(op'.name = "buyItem" /\ store.score >= op'.n) =>
        LET paid == [store EXCEPT !.score = store.score - op'.n]
        IN  /\ op'.ret = "true"
            /\ op'.kind = "DOUBLE_JUMP" => store' = [paid EXCEPT !.hasDoubleJump = TRUE]
            /\ op'.kind = "MAX_LIFE" =>
                  store' = [paid EXCEPT !.maxLives = store.maxLives + 1,
                                        !.lives = store.lives + 1]
            /\ op'.kind = "HEAL" =>
                  store' = [paid EXCEPT !.lives =
                               IF store.lives + 1 < store.maxLives
                               THEN store.lives + 1 ELSE store.maxLives]
            /\ op'.kind = "IMMORTAL" => store' = [paid EXCEPT !.hasImmortality = TRUE]
    ]_vars

C8_Witness ==
    /\ op.name = "buyItem"
    /\ op.kind = "MAX_LIFE"
    /\ op.ret = "true"
    /\ store.maxLives = 4
    /\ store.lives = 3

(* C9: in every reachable state 0 <= lives <= maxLives. *)
C9_LivesInRange == 0 <= store.lives /\ store.lives <= store.maxLives

C9_Witness ==
    /\ op.name = "buyItem"
    /\ op.kind = "HEAL"
    /\ op.ret = "true"
    /\ store.lives = store.maxLives
    /\ store.status = "GAME_OVER"

(* C10: startGame and restartGame, called in any state, both produce the same
   fresh run: PLAYING, score 0, lives = maxLives = 3, base speed, 3 lanes,
   level 1, no letters, multiplier 1 with window 0, no gems, distance 0, no
   inventory; a second call in a row changes nothing. *)
C10_FreshRun ==
    [status |-> "PLAYING", score |-> 0, lives |-> 3, maxLives |-> 3,
     speed |-> RUN_SPEED_BASE, collectedLetters |-> <<>>, level |-> 1,
     laneCount |-> 3, gemsCollected |-> 0, distance |-> 0,
     multiplier |-> 1, multiplierEndTime |-> 0,
     hasDoubleJump |-> FALSE, hasImmortality |-> FALSE,
     isImmortalityActive |-> FALSE]

C10_StartAndRestartReset ==
    [][(op'.name \in {"startGame", "restartGame"}) =>
        /\ store' = C10_FreshRun
        /\ (op.name \in {"startGame", "restartGame"}) => store' = store
    ]_vars

C10_Witness ==
    /\ op.name = "restartGame"
    /\ store = C10_FreshRun
    /\ timers # <<>>

(* C11: under any sequence of operations of the store, status changes only
   along MENU->PLAYING, PLAYING->SHOP, PLAYING->GAME_OVER, PLAYING->VICTORY,
   SHOP->PLAYING, GAME_OVER->PLAYING and VICTORY->PLAYING, and the edges out of
   GAME_OVER and VICTORY are taken only by startGame/restartGame, which leave
   every run field at its default. *)
C11_Edges ==
    {<<"MENU", "PLAYING">>, <<"PLAYING", "SHOP">>, <<"PLAYING", "GAME_OVER">>,
     <<"PLAYING", "VICTORY">>, <<"SHOP", "PLAYING">>, <<"GAME_OVER", "PLAYING">>,
     <<"VICTORY", "PLAYING">>}

C11_StatusEdges ==
    [][/\ store'.status # store.status => <<store.status, store'.status>> \in C11_Edges
       /\ (store.status \in {"GAME_OVER", "VICTORY"} /\ store'.status # store.status) =>
             (op'.name \in {"startGame", "restartGame"} /\ store' = C10_FreshRun)
    ]_vars

(* C12: a step taken while status is not PLAYING does nothing: the objects
   (the set, every position and every timer), distanceTraveled,
   nextLetterDistance and the whole store are unchanged, and no event is
   emitted. *)
C12_StepOutsidePlayingDoesNothing ==
    [][(op'.name = "step" /\ store.status # "PLAYING") =>
        /\ objectsRef' = objectsRef
        /\ distanceTraveled' = distanceTraveled
        /\ nextLetterDistance' = nextLetterDistance
        /\ store' = store
        /\ events' = <<>>
    ]_vars

C12_Witness ==
    /\ op.name = "step"
    /\ store.status = "SHOP"
    /\ store.level = 3
    /\ distanceTraveled > 0
    /\ \E i \in 1..Len(objectsRef) :
          objectsRef[i].type = "BOSS" /\ objectsRef[i].attackTimer > 0
    /\ \E i \in 1..Len(objectsRef) :
          objectsRef[i].type = "SHOP_PORTAL" /\ objectsRef[i].z > PORTAL_Z
    /\ \E i \in 1..Len(objectsRef) : objectsRef[i].type = "OBSTACLE"

(* C13: after any sequence of steps, status transitions, level-ups and
   resets, the objects contain at most one BOSS. *)
C13_AtMostOneBoss ==
    Cardinality({i \in 1..Len(objectsRef) : objectsRef[i].type = "BOSS"}) <= 1

C13_Witness ==
    /\ op.name = "step"
    /\ store.level = 3
    /\ prevStatus = "PLAYING"
    /\ \E i \in 1..Len(objectsRef) :
          objectsRef[i].type = "BOSS" /\ objectsRef[i].attackTimer > 0
    /\ \E i \in 1..Len(objectsRef) : objectsRef[i].type = "SHOP_PORTAL"

(* C14: whenever a step spawns a batch, the gap it used is at least 12 world
   units, at least 18 at level 3, and the batch is placed at or beyond the
   frontier minus the gap; and in every reachable state any two track
   objects (OBSTACLE, GEM, LETTER, ALIEN, SHOP_PORTAL) that were not placed
   in the same batch are at least 12 world units apart in z. *)
C14_isTrack(obj) == obj.type \in {"OBSTACLE", "GEM", "LETTER", "ALIEN", "SHOP_PORTAL"}

C14_Apart(objs) ==
    \A i, j \in 1..Len(objs) :
        (C14_isTrack(objs[i]) /\ C14_isTrack(objs[j]) /\ objs[i].batch # objs[j].batch) =>
            (objs[i].z - objs[j].z >= 12 * UNIT \/ objs[j].z - objs[i].z >= 12 * UNIT)

C14_SpawnGap ==
    [][/\ lastSpawn'.count > 0 =>
             /\ lastSpawn'.minGap >= 12 * UNIT
             /\ store.level = 3 => lastSpawn'.minGap >= 18 * UNIT
             /\ lastSpawn'.spawnZ <= lastSpawn'.furthestZ - lastSpawn'.minGap
       /\ C14_Apart(objectsRef')
    ]_vars

C14_Witness ==
    /\ op.name = "step"
    /\ lastSpawn.count > 1
    /\ lastSpawn.spawnZ < 0 - SPAWN_DISTANCE
    /\ \E i, j, k \in 1..Len(objectsRef) :
          /\ objectsRef[i].type = "OBSTACLE" /\ objectsRef[i].z > SOFT_RESET_Z
          /\ objectsRef[j].type = "SHOP_PORTAL" /\ objectsRef[j].batch > objectsRef[i].batch
          /\ objectsRef[k].type = "GEM" /\ objectsRef[k].batch > objectsRef[j].batch
          /\ objectsRef[k].z = lastSpawn.spawnZ

(* C21: tickCombo sets multiplier to 1 exactly when status is PLAYING,
   multiplier > 1 and the time is past multiplierEndTime, and otherwise
   changes nothing; it never changes score or multiplierEndTime.  With frames
   that keep running, a state in which status is PLAYING and a multiplier > 1
   has outlived its window leads to a state with multiplier 1, unless the
   status leaves PLAYING first (or the run reaches the end of the modelled
   track). *)
C21_Expired ==
    store.status = "PLAYING" /\ store.multiplier > 1 /\ now > store.multiplierEndTime

C21_TickComboDecays ==
    /\ [][(op'.name = "tickCombo") =>
            /\ store' = IF C21_Expired THEN [store EXCEPT !.multiplier = 1] ELSE store
            /\ store'.score = store.score
            /\ store'.multiplierEndTime = store.multiplierEndTime
         ]_vars
    /\ (C21_Expired /\ distanceTraveled < MaxDistance)
          ~> (store.multiplier = 1 \/ store.status # "PLAYING")

C21_Witness ==
    /\ op.name = "step"
    /\ op.kind = "PLAYING"
    /\ store.status = "PLAYING"
    /\ store.multiplier = 1
    /\ store.gemsCollected = 2
    /\ store.score > 100
    /\ now > store.multiplierEndTime

(* C15: an expiry callback of activateImmortality that is still pending when
   startGame/restartGame begins a new run changes nothing of the new run when
   it fires; in particular it does not end an immortality that was bought and
   activated in the new run. *)
C15_StaleTimerChangesNothing ==
    [][(op'.name = "immortalityTimeout" /\ op'.kind = "stale") => store' = store]_vars

(* C16: activateImmortality changes nothing and schedules no callback unless
   hasImmortality is true and isImmortalityActive is false; when it succeeds
   it sets isImmortalityActive and schedules exactly one expiry, 5000 ms
   later; within the run isImmortalityActive then stays true until 5000 ms
   have passed since that activation. *)
C16_ImmortalityLastsFiveSeconds ==
    [][/\ (op'.name = "activateImmortality"
             /\ ~(store.hasImmortality /\ ~store.isImmortalityActive)) =>
             (store' = store /\ timers' = timers)
       /\ (op'.name = "activateImmortality"
             /\ store.hasImmortality /\ ~store.isImmortalityActive) =>
             /\ store' = [store EXCEPT !.isImmortalityActive = TRUE]
             /\ timers' = Append(timers, now + 5000)
       /\ (store.isImmortalityActive /\ ~store'.isImmortalityActive
             /\ op'.name \notin {"startGame", "restartGame"}) =>
             now' >= activatedAt + 5000
    ]_vars

(* C17: in every state reachable by any sequence of operations of the store,
   1 <= level <= MAX_LEVEL = 3. *)
C17_LevelInRange == 1 <= store.level /\ store.level <= 3

(* C18: in every reachable state collectedLetters holds pairwise distinct
   indices, at most WORD_LENGTH = 6 of them, and it holds all six only in
   status VICTORY. *)
C18_LettersDistinctFullOnlyInVictory ==
    /\ \A i, j \in 1..Len(store.collectedLetters) :
          i # j => store.collectedLetters[i] # store.collectedLetters[j]
    /\ Len(store.collectedLetters) <= 6
    /\ Len(store.collectedLetters) = 6 => store.status = "VICTORY"

(* C19 as stated: between one startGame/restartGame and the next, speed is
   never negative and no operation lowers it. *)
C19_SpeedNeverLowered ==
    [][/\ store'.speed >= 0
       /\ op'.name \notin {"startGame", "restartGame"} => store'.speed >= store.speed
    ]_vars

(* C19, amended: between one startGame/restartGame and the next, speed is
   never negative and no operation lowers it, except the takeDamage call that
   ends the run (lives <= 1, immortality not active), which sets speed to 0. *)
C19_SpeedLoweredOnlyByGameOver ==
    [][/\ store'.speed >= 0
       /\ op'.name \notin {"startGame", "restartGame"} =>
             \/ store'.speed >= store.speed
             \/ /\ op'.name = "takeDamage"
                /\ store.lives <= 1
                /\ ~store.isImmortalityActive
                /\ store'.speed = 0
                /\ store'.status = "GAME_OVER"
    ]_vars

C19_Witness ==
    /\ op.name = "takeDamage"
    /\ store.status = "GAME_OVER"
    /\ store.speed = 0
    /\ store.level = 2
    /\ Len(store.collectedLetters) = 2

(* C20: collectLetter(index) with index already in collectedLetters adds
   500 * newMultiplier to the score and refreshes the combo window, and leaves
   collectedLetters, speed, level, laneCount and status (and every other
   field) as they were. *)
C20_DuplicateLetterOnlyScores ==
    [][(op'.name = "collectLetter"
          /\ \E i \in 1..Len(store.collectedLetters) : store.collectedLetters[i] = op'.n) =>
        store' = [store EXCEPT !.score = store.score + 500 * ruleMultiplier,
                               !.multiplier = ruleMultiplier,
                               !.multiplierEndTime = now + COMBO_WINDOW_MS]
    ]_vars

C20_Witness ==
    /\ op.name = "collectLetter"
    /\ op.n = 4
    /\ Len(store.collectedLetters) = 5
    /\ store.level = 1
    /\ store.status = "PLAYING"
    /\ store.multiplier = 2

----------------------------------------------------------------------------
(* The beams of the world, and what a frame of dt ms makes of them *)
isBeam(obj) == obj.type = "BOSS_BEAM"

beamsOf(objs) == SelectSeq(objs, isBeam)

beamView(b) == [x |-> b.x, timer |-> b.beamTimer, state |-> b.beamState, active |-> b.active]

viewOf(beams) == [k \in 1..Len(beams) |-> beamView(beams[k])]

isRunningFrame == op'.name = "step" /\ op'.kind = "PLAYING"

clamped(delta) == IF delta < 50 THEN delta ELSE 50

(* C22: at level 3 the boss attacks exactly in the frames in which its timer,
   advanced by the clamped frame time, exceeds 3.5 s: the timer returns to 0
   and one or two beams are launched, WARNING with timer 0, on distinct lanes
   of the valid lane set; in every other frame the timer advances and no beam
   is launched, and no task adds a beam the boss did not launch *)
C22_Due == isRunningFrame /\ store.level = 3 /\ hasBoss(objectsRef)
           /\ objectsRef[bossIndex(objectsRef)].active
           /\ objectsRef[bossIndex(objectsRef)].attackTimer + clamped(op'.n) > 3500

C22_BossAttacks ==
    [][/\ C22_Due =>
            /\ objectsRef'[bossIndex(objectsRef')].attackTimer = 0
            /\ Len(lastFrame'.beams) \in {1, 2}
            /\ \A k \in 1..Len(lastFrame'.beams) :
                  LET b == lastFrame'.beams[k]
                  IN  /\ b.type = "BOSS_BEAM" /\ b.active
                      /\ b.beamState = "WARNING" /\ b.beamTimer = 0
                      /\ b.beamLane \in (0 - (store.laneCount \div 2))..(store.laneCount \div 2)
                      /\ b.x = b.beamLane * LANE_WIDTH
            /\ Len(lastFrame'.beams) = 2 =>
                  lastFrame'.beams[1].beamLane # lastFrame'.beams[2].beamLane
       /\ ~C22_Due =>
            /\ lastFrame'.beams = <<>>
            /\ (isRunningFrame /\ store.level = 3 /\ hasBoss(objectsRef)) =>
                  objectsRef'[bossIndex(objectsRef')].attackTimer =
                      objectsRef[bossIndex(objectsRef)].attackTimer + clamped(op'.n)
       /\ Len(beamsOf(objectsRef')) <= Len(beamsOf(objectsRef)) + Len(lastFrame'.beams)
      ]_vars

C22_Witness ==
    /\ op.name = "step"
    /\ op.n = 2 * MAX_DELTA
    /\ store.status = "PLAYING"
    /\ Len(lastFrame.beams) = 2
    /\ Len(beamsOf(objectsRef)) = 2
    /\ objectsRef[bossIndex(objectsRef)].attackTimer = 0

(* C23: a beam is WARNING while its timer is under 2 s, ACTIVE from 2 s to
   under 3 s, and leaves the object set in the frame that takes its timer to
   3 s; a frame advances every beam by the clamped frame time and nothing
   else touches a beam; a beam dispatches player-hit exactly in the frames in
   which it is ACTIVE with the player within 0.9 of its x; and while the run
   is PLAYING the beams are eventually gone *)
C23_Phases ==
    \A k \in 1..Len(objectsRef) :
        isBeam(objectsRef[k]) =>
            /\ objectsRef[k].active
            /\ objectsRef[k].beamTimer < 3000
            /\ objectsRef[k].beamState = (IF objectsRef[k].beamTimer < 2000 THEN "WARNING"
                                          ELSE "ACTIVE")

C23_Advanced(b, dt) ==
    [x |-> b.x, timer |-> b.beamTimer + dt,
     state |-> IF b.beamTimer + dt < 2000 THEN "WARNING" ELSE "ACTIVE", active |-> TRUE]

C23_FrameAdvances ==
    LET dt == clamped(op'.n)
        alive(b) == b.beamTimer + dt < 3000
        burns(b) == /\ alive(b)
                    /\ b.beamTimer + dt >= 2000
                    /\ Abs(b.x - lastFrame'.player.x) < 36
        isBeamHit(e) == e = Event("player-hit", "BOSS_BEAM")
        before == beamsOf(objectsRef) \o lastFrame'.beams
        survivors == SelectSeq(before, alive)
    IN  /\ viewOf(beamsOf(objectsRef')) =
               [k \in 1..Len(survivors) |-> C23_Advanced(survivors[k], dt)]
        /\ Len(SelectSeq(events', isBeamHit)) = Len(SelectSeq(before, burns))

C23_BeamLifeCycle ==
    /\ []C23_Phases
    /\ [][IF isRunningFrame THEN C23_FrameAdvances
          ELSE /\ beamsOf(objectsRef') \in {beamsOf(objectsRef), <<>>}
               /\ \A k \in 1..Len(events') : events'[k].by # "BOSS_BEAM"]_vars
    /\ (Len(beamsOf(objectsRef)) > 0 /\ store.status = "PLAYING")
          ~> \/ Len(beamsOf(objectsRef)) = 0
             \/ store.status # "PLAYING"
             \/ distanceTraveled >= MaxBossDistance

C23_Witness ==
    /\ op.name = "step"
    /\ store.status = "PLAYING"
    /\ store.lives = 2
    /\ Len(beamsOf(objectsRef)) = 0
    /\ hasBoss(objectsRef)
    /\ objectsRef[bossIndex(objectsRef)].attackTimer = BEAM_ACTIVE_MS
    /\ distanceTraveled < MaxBossDistance

----------------------------------------------------------------------------
(* The objects of the track and their collisions *)
TrackTypes == {"OBSTACLE", "ALIEN", "MISSILE", "GEM", "LETTER", "SHOP_PORTAL"}

isCollision(e) ==
    \/ e.name \in {"openShop", "gem-collect", "letter-collect"}
    \/ e.name = "player-hit" /\ e.by # "BOSS_BEAM"

activeOnTrack(obj) == obj.type \in TrackTypes /\ obj.active

(* C24: an object of the track resolves at most one collision in its
   lifetime and is inactive from that collision on; an inactive object of
   the track is one that has had its collision; and a frame dispatches no
   more collisions than there were active objects on the track *)
C24_OneCollisionPerObject ==
    /\ [](\A k \in 1..Len(objectsRef) :
            objectsRef[k].type \in TrackTypes =>
                /\ objectsRef[k].hits <= 1
                /\ objectsRef[k].active <=> objectsRef[k].hits = 0)
    /\ [][Len(SelectSeq(events', isCollision)) <= Len(SelectSeq(objectsRef, activeOnTrack))]_vars

(* An obstacle that has hit the player is still inside the collision band, the
   player still in its lane and at its height, and this frame dispatched no hit *)
C24_Witness ==
    /\ op.name = "step"
    /\ store.status = "PLAYING"
    /\ lastFrame.player = Origin
    /\ SelectSeq(events, isCollision) = <<>>
    /\ \E k \in 1..Len(objectsRef) :
          /\ objectsRef[k].type = "OBSTACLE"
          /\ objectsRef[k].x = 0
          /\ ~objectsRef[k].active
          /\ objectsRef[k].hits = 1
          /\ objectsRef[k].z > 0
          /\ objectsRef[k].z < Z_THRESHOLD

(* The portals about to be reached: active, and within 2 units of the
   player's z once the frame has moved them *)
frameDist == (store.speed * clamped(op'.n) * 2) \div 25

isPortal(obj) == obj.type = "SHOP_PORTAL"

isOpenShop(e) == e.name = "openShop"

C25_Reached(obj) ==
    /\ isPortal(obj) /\ obj.active
    /\ obj.z + frameDist - lastFrame'.player.z < 2 * UNIT
    /\ lastFrame'.player.z - (obj.z + frameDist) < 2 * UNIT

C25_InLane(obj) ==
    /\ obj.x - lastFrame'.player.x < 36
    /\ lastFrame'.player.x - obj.x < 36

(* C25 as stated: the shop is entered only through an active portal within 2
   units of the player's z and within 0.9 of the player's x *)
C25_PortalNeedsLane ==
    [][(isRunningFrame /\ SelectSeq(events', isOpenShop) # <<>>) =>
          \E k \in 1..Len(objectsRef) :
              C25_Reached(objectsRef[k]) /\ C25_InLane(objectsRef[k])]_vars

(* C25 amended: a frame enters the shop once for every active portal within
   2 units of the player's z, whatever the player's lane, and for no other
   reason; such a portal is not in the object set after the frame, every
   other portal is, moved and as active as before; the status is SHOP
   when nothing else collided in the frame *)
C25_PortalOpensShop ==
    [][isRunningFrame =>
          /\ Len(SelectSeq(events', isOpenShop)) = Len(SelectSeq(objectsRef, C25_Reached))
          /\ \A k \in 1..Len(objectsRef) :
                isPortal(objectsRef[k]) =>
                    IF C25_Reached(objectsRef[k])
                    THEN \A j \in 1..Len(objectsRef') :
                            isPortal(objectsRef'[j]) => objectsRef'[j].batch # objectsRef[k].batch
                    ELSE \E j \in 1..Len(objectsRef') :
                            objectsRef'[j] = [objectsRef[k] EXCEPT !.z = @ + frameDist]
          /\ (SelectSeq(events', isCollision) = <<Event("openShop", "SHOP_PORTAL")>>) =>
                store'.status = "SHOP"
      ]_vars

(* The player enters the shop from the lane to the right of the portal's x *)
C25_Witness ==
    /\ op.name = "step"
    /\ op.kind = "PLAYING"
    /\ store.status = "SHOP"
    /\ lastFrame.player.x = LANE_WIDTH
    /\ SelectSeq(events, isOpenShop) # <<>>
    /\ SelectSeq(objectsRef, isPortal) = <<>>

(* C26: with the frame time clamped to 50 ms no active object of the track
   gets behind the player's collision band untested, at any speed a run
   reaches: an active portal is never behind the band (it is entered and
   dropped on the way), any other active object behind the band has been
   inside the band in a frame that tested it, and a frame moves the world
   by less than the 4 units of the portal's band *)
C26_NoTunnelling ==
    /\ \A k \in 1..Len(objectsRef) :
          (objectsRef[k].type \in TrackTypes /\ objectsRef[k].active
              /\ objectsRef[k].z >= 2 * UNIT) =>
                  (objectsRef[k].tested /\ objectsRef[k].type # "SHOP_PORTAL")
    /\ (store.speed * 50 * 2) \div 25 < 4 * UNIT

(* At the highest speed of a run a missile has passed the player, who ran in
   the lane next to it *)
C26_Witness ==
    /\ op.name = "step"
    /\ store.status = "PLAYING"
    /\ store.level = MAX_LEVEL
    /\ Len(store.collectedLetters) = WORD_LENGTH - 1
    /\ \E k \in 1..Len(objectsRef) :
          /\ objectsRef[k].type = "MISSILE"
          /\ objectsRef[k].active
          /\ objectsRef[k].tested
          /\ objectsRef[k].z >= 2 * UNIT

----------------------------------------------------------------------------
(* Letters on the track *)
isLetterObject(obj) == obj.type = "LETTER"

remainingLetters(letters) == {i \in 0..5 : \A k \in 1..Len(letters) : letters[k] # i}

levelInterval(level) == IF level = 1 THEN 150 * UNIT
                        ELSE IF level = 2 THEN 225 * UNIT
                        ELSE (675 * UNIT) \div 2

isLetterFrame ==
    /\ isRunningFrame
    /\ lastFrame'.frontier > 0 - 120 * UNIT
    /\ distanceTraveled + frameDist >= nextLetterDistance

(* C27: a frame whose spawn condition holds with the letter distance reached
   spawns exactly one LETTER of an index the player has not collected, and
   nothing else, and moves nextLetterDistance on by the interval of the
   level; with every letter collected it spawns exactly one GEM and leaves
   nextLetterDistance alone; no other task spawns a LETTER *)
C27_LetterWhenDue ==
    [][IF isLetterFrame
       THEN IF remainingLetters(store'.collectedLetters) # {}
            THEN /\ Len(lastFrame'.spawned) = 1
                 /\ lastFrame'.spawned[1].type = "LETTER"
                 /\ lastFrame'.spawned[1].targetIndex
                        \in remainingLetters(store'.collectedLetters)
                 /\ nextLetterDistance' = nextLetterDistance + levelInterval(store.level)
            ELSE /\ Len(lastFrame'.spawned) = 1
                 /\ lastFrame'.spawned[1].type = "GEM"
                 /\ nextLetterDistance' = nextLetterDistance
       ELSE /\ SelectSeq(lastFrame'.spawned, isLetterObject) = <<>>
            /\ Len(SelectSeq(objectsRef', isLetterObject))
                  <= Len(SelectSeq(objectsRef, isLetterObject))
      ]_vars

----------------------------------------------------------------------------
(* The world across runs *)
isFreshWorld ==
    /\ objectsRef = <<>>
    /\ distanceTraveled = 0
    /\ nextLetterDistance = 150 * UNIT

(* C28: the world is hard-reset around GAME_OVER, VICTORY and MENU: it is
   fresh (no objects, distance 0, the letter distance of level 1) whenever
   the status is MENU, and no frame runs on a world that holds what an
   ended run left *)
C28_HardResetBetweenRuns ==
    /\ [](store.status = "MENU" => isFreshWorld)
    /\ [][isRunningFrame => ~staleWorld]_vars

(* The level-up of a run in progress, and the objects near the player *)
isRunLevelUp ==
    store.status = "PLAYING" /\ store'.status = "PLAYING" /\ store'.level > store.level

isNear(obj) == obj.z > 0 - 80 * UNIT

isActivePortal(obj) == isPortal(obj) /\ obj.active

(* C29: a level-up of a run in progress keeps exactly the objects nearer
   than 80 units, in their order and untouched, adds one active portal 100
   units ahead, behind which every kept object lies, and leaves
   distanceTraveled as the task left it; and while the run is PLAYING with
   an active portal on the track, the shop is eventually entered unless the
   run ends first *)
C29_SoftReset ==
    /\ [][(isRunLevelUp /\ op'.name # "step") =>
            LET n == Len(objectsRef')
            IN  /\ n >= 1
                /\ SubSeq(objectsRef', 1, n - 1) = SelectSeq(objectsRef, isNear)
                /\ isActivePortal(objectsRef'[n])
                /\ objectsRef'[n].z = 0 - 100 * UNIT
                /\ \A k \in 1..(n - 1) : objectsRef'[k].z > objectsRef'[n].z
                /\ distanceTraveled' = distanceTraveled
                /\ Len(SelectSeq(objectsRef', isActivePortal))
                      <= Len(SelectSeq(objectsRef, isActivePortal)) + 1]_vars
    /\ ((\E k \in 1..Len(objectsRef) : isActivePortal(objectsRef[k])) /\ store.status = "PLAYING")
          ~> (store.status \in {"SHOP", "GAME_OVER"})

(* The shop entered through the portal of a level-up made 130 frames into
   the run, which kept the objects near the player and dropped the far ones *)
C29_Witness ==
    /\ op.name = "step"
    /\ op.kind = "PLAYING"
    /\ store.status = "SHOP"
    /\ store.level = 2
    /\ distanceTraveled > 200 * UNIT
    /\ \E k \in 1..Len(events) : isOpenShop(events[k])

----------------------------------------------------------------------------
(* C30: once takeDamage has ended the run (GAME_OVER, no lives, speed 0), no
   operation but startGame and restartGame changes status, lives or speed:
   not collectGem, collectLetter (with the advanceLevel it may call),
   openShop, closeShop, buyItem, tickCombo, nor a frame *)
C30_Halted == store.status = "GAME_OVER" /\ store.lives = 0 /\ store.speed = 0

C30_GameOverIsSticky ==
    [][(C30_Halted /\ op'.name \in {"collectGem", "collectLetter", "openShop", "closeShop",
                                      "buyItem", "tickCombo", "step"}) =>
          /\ store'.status = "GAME_OVER"
          /\ store'.lives = 0
          /\ store'.speed = 0]_vars

----------------------------------------------------------------------------
(* The boss across runs *)
isBossOrBeam(obj) == obj.type \in {"BOSS", "BOSS_BEAM"}

(* C31: a frame that runs at a level other than 3 finds no BOSS and no
   BOSS_BEAM in the object set; in particular none is left after startGame
   or restartGame has taken the level back to 1, whatever the status was *)
C31_BossOnlyAtLevelThree ==
    [][(isRunningFrame /\ store.level # 3) =>
          SelectSeq(objectsRef, isBossOrBeam) = <<>>]_vars

----------------------------------------------------------------------------
(* Frames that skip the replacement of the object set *)
isRendered == \E i \in 1..Len(events) : events[i].name = "render"

(* C32: a running frame whose change flag stays false leaves in
   objectsRef.current exactly the surviving objects plus the new spawns that
   the replacement would have written: nothing was removed, expired or
   spawned, so replacing the set in every frame gives the same object sets *)
C32_SkipLosesNothing ==
    [][(isRunningFrame /\ ~isRendered') =>
          /\ lastFrame'.skipped = objectsRef'
          /\ lastFrame'.spawned = <<>>
          /\ Len(objectsRef') = Len(objectsRef)]_vars

C32_Witness ==
    /\ op.name = "step" /\ op.kind = "PLAYING"
    /\ ~isRendered
    /\ objectsRef # <<>>
    /\ lastFrame.skipped = objectsRef
    /\ \E i \in 1..Len(objectsRef) : objectsRef[i].z > 0 - SPAWN_DISTANCE

----------------------------------------------------------------------------
(* The beams of successive attacks *)
C33_NewBeamsOnly ==
    (isRunningFrame /\ lastFrame'.beams # <<>>) =>
        \A k \in 1..Len(beamsOf(objectsRef')) :
            beamsOf(objectsRef')[k].beamTimer <= MAX_DELTA

(* C33: between frames the object set holds at most two BOSS_BEAM objects,
   on different lanes; when an attack spawns its beams no beam of an earlier
   attack is left, whatever the lengths of the frames were *)
C33_AtMostTwoBeams ==
    /\ [](LET beams == beamsOf(objectsRef)
          IN  /\ Len(beams) <= 2
              /\ \A i, j \in 1..Len(beams) : i # j => beams[i].x # beams[j].x)
    /\ [][C33_NewBeamsOnly]_vars

C33_Witness ==
    /\ op.name = "step" /\ op.kind = "PLAYING"
    /\ op.n < MAX_DELTA
    /\ Len(lastFrame.beams) = 2
    /\ Len(beamsOf(objectsRef)) = 2
    /\ distanceTraveled > 10000

====
